---- MODULE Spec2Model ----
(***************************************************************************)
(* Model of nfs-lockfile-counter.c: a libkvm scanner that resolves the     *)
(* symbols _nfslockhash and _nfsrv_lockhashsize, reads the bucket count    *)
(* and the bucket array pointer from kernel memory, walks every hash       *)
(* chain, and counts records and "lost" records.                           *)
(*                                                                         *)
(* The kernel image (symbol table and memory contents) and the outcome of  *)
(* every libkvm call are the environment.  kvm_read returns -1 on error,   *)
(* otherwise the number of bytes transferred, which may be smaller than    *)
(* the number requested; the bytes of the destination that were not        *)
(* transferred keep their indeterminate (uninitialised stack) content.     *)
(***************************************************************************)
EXTENDS Integers, Sequences, FiniteSets, TLC

\* ------------------------------------------------------------------ bounds
MaxBuckets == 2
MaxRecords == 2
\* ceiling on total_lockfiles in the model (the C counter is an int)
MaxVisits == MaxRecords + 2
\* how many kvm_read calls of one run may transfer fewer bytes than requested
MaxShortReads == 1
\* how many changes the running kernel makes to the table during one scan
MaxMutations == 1
\* how many create / exclusive-create / delete cycles the generator may start
MaxCycles == 2
\* how many times another client creates or removes FILEPATH during a run
MaxInterference == 1

\* --------------------------------------------------------------- constants
SYMBOL_LOCKHASH == "_nfslockhash"
SYMBOL_LOCKHASH_SIZE == "_nfsrv_lockhashsize"
SymNames == {SYMBOL_LOCKHASH, SYMBOL_LOCKHASH_SIZE}

IntSize == 4
PtrSize == 8
\* sizeof(struct nfslockfile): five list heads, the hash entry (two
\* pointers), fhandle_t, struct nfsv4lock, int, padded to 8 bytes
RecSize == 12 * PtrSize

AssocFields == <<"lf_open", "lf_deleg", "lf_lock", "lf_locallock", "lf_rollback">>
AssocNames == {AssocFields[i] : i \in 1..Len(AssocFields)}
\* number of leading pointer fields of the struct: the five list heads and le_next
NumPtrFields == Len(AssocFields) + 1

\* ------------------------------------------------- layout of the test image
SymSizeAddr == PtrSize
SymHashAddr == 2 * PtrSize
TableBase == 4 * PtrSize
RecAddr(i) == 16 * PtrSize * i
RecAddrs == {RecAddr(i) : i \in 1..MaxRecords}
\* the address of some other kernel object (an open, a lock, ...); also a
\* stale pointer value.  Nothing readable by the scanner lives there.
OtherAddr == 3 * PtrSize
Ptrs == {0} \cup RecAddrs

\* the 4 bytes of an int, little-endian, read as a signed 32-bit integer
Int32(b) == b[1] + 256 * b[2] + 65536 * b[3]
            + 16777216 * (IF b[4] >= 128 THEN b[4] - 256 ELSE b[4])
Bytes32(n) == <<n % 256, (n \div 256) % 256, (n \div 65536) % 256,
                IF n < 0 THEN 255 ELSE (n \div 16777216) % 256>>
NegativeCounts == {<<255, 255, 255, 255>>, <<0, 0, 0, 128>>}

VARIABLES
    image,              \* the kernel: symbol table and memory contents
    pc,                 \* position in main()
    kd,                 \* the kvm_t handle: "none", "null", "open", "closed"
    rc,                 \* int rc
    symbols,            \* symbols[].n_value after kvm_nlist
    lockfilehashsize,   \* int lockfilehashsize
    lockfilehashtable,  \* unsigned long lockfilehashtable
    bucket,             \* loop variable of the for loop
    cur,                \* unsigned long cur
    total_lockfiles,
    leaked_lockfiles,
    out,                \* lines written to stdout
    err,                \* messages written to stderr
    exit_status,        \* -1 while running, else the process exit status
    reads,              \* every kvm_read issued: [addr, size, rc]
    lockfile_buf,       \* struct nfslockfile lockfile, the buffer of line 92
    mutations           \* changes the running kernel made to the table

\* nfs-trigger-lockfile-bug.c
VARIABLES
    tpc,                \* position in main()
    argc,
    handler,            \* sigint_handler is installed
    shutdown,           \* volatile sig_atomic_t shutdown
    nfs,                \* nfs != NULL
    parsed_url,         \* parsed_url != NULL
    count,
    return_code,
    ret,
    tout,               \* lines written to stdout
    terr,               \* messages written to stderr
    texit,              \* -1 while running, else the process exit status
    exists,             \* FILEPATH exists on the server
    interference,       \* changes other clients made to FILEPATH
    ops,                \* every libnfs call issued: [op, ret, existed]
    destroyed           \* the nfs_destroy_* calls issued, in order

livevars == <<lockfile_buf, mutations>>
svars == <<image, pc, kd, rc, symbols, lockfilehashsize, lockfilehashtable,
           bucket, cur, total_lockfiles, leaked_lockfiles, out, err,
           exit_status, reads>>
tvars == <<tpc, argc, handler, shutdown, nfs, parsed_url, count, return_code,
           ret, tout, terr, texit, exists, interference, ops, destroyed>>
vars == <<image, pc, kd, rc, symbols, lockfilehashsize, lockfilehashtable,
          bucket, cur, total_lockfiles, leaked_lockfiles, out, err,
          exit_status, reads, livevars, tvars>>

\* --------------------------------------------------------- the kernel image
Rec(assoc, next) ==
    [lf_open |-> IF "lf_open" \in assoc THEN OtherAddr ELSE 0,
     lf_deleg |-> IF "lf_deleg" \in assoc THEN OtherAddr ELSE 0,
     lf_lock |-> IF "lf_lock" \in assoc THEN OtherAddr ELSE 0,
     lf_locallock |-> IF "lf_locallock" \in assoc THEN OtherAddr ELSE 0,
     lf_rollback |-> IF "lf_rollback" \in assoc THEN OtherAddr ELSE 0,
     le_next |-> next]

SlotAddr(i) == TableBase + i * PtrSize
NumSlots == Len(image.heads)
SlotAddrs == {SlotAddr(i) : i \in 0..(NumSlots - 1)}

\* what kvm_read can transfer from an address, by the kind of object read
MappedInt(a) == a = SymSizeAddr
MappedPtr(a) == a = SymHashAddr \/ a \in SlotAddrs
MappedRec(a) == a \in RecAddrs
MemInt(a) == image.size
MemPtr(a) == IF a = SymHashAddr THEN TableBase
             ELSE image.heads[((a - TableBase) \div PtrSize) + 1]
MemRec(a) == image.recs[a]

\* kvm_read(3): -1 on error, else the number of bytes transferred
IsShort(e) == e.rc >= 0 /\ e.rc < e.size
ShortReads == Cardinality({i \in DOMAIN reads : IsShort(reads[i])})
ReadRcs(mapped, size, shorts) ==
    IF ~mapped THEN {-1}
    ELSE {-1, size} \cup (IF ShortReads < MaxShortReads THEN shorts ELSE {})

\* the transfer lengths of a short read that the model distinguishes
ShortIntLens == {0, IntSize \div 2}
ShortPtrLens == {0, PtrSize \div 2}
ShortRecLens == {0, Len(AssocFields) * PtrSize, NumPtrFields * PtrSize}

\* stale content of the destination buffer
GarbageBytes == {0, 255}
GarbagePtrs == {0, RecAddr(1), OtherAddr}

\* the destination int after n of 4 bytes were transferred over garbage g
IntAfterRead(a, n, g) ==
    Int32([i \in 1..IntSize |-> IF i <= n THEN MemInt(a)[i] ELSE g])

\* the destination struct after the first k pointer fields were transferred;
\* the remaining fields hold stale stack content (ga, gn)
RecAfterRead(a, k, ga, gn) ==
    LET m == MemRec(a)
        F(i) == IF i <= k THEN m[AssocFields[i]] ELSE ga
    IN [lf_open |-> F(1), lf_deleg |-> F(2), lf_lock |-> F(3),
        lf_locallock |-> F(4), lf_rollback |-> F(5),
        le_next |-> IF k >= NumPtrFields THEN m.le_next ELSE gn]

\* ---------------------------------------------------------------- helpers
Fail(msg) ==
    /\ err' = Append(err, msg)
    /\ exit_status' = 1
    /\ pc' = "exit"

Log(a, size, r) == reads' = Append(reads, [addr |-> a, size |-> size, rc |-> r])

\* line 103: the test that decides whether a record is counted as lost
ClassifyEither(lockfile) == lockfile.lf_open = 0 \/ lockfile.lf_lock = 0
Classify(lockfile) == lockfile.lf_open = 0 /\ lockfile.lf_lock = 0

\* line 82: the loop condition
LoopCondLE(b, n) == b <= n
LoopCond(b, n) == b < n

\* line 85: the address of bucket b's head pointer
BucketAddrNext(table, b) == table + ((b + 1) * PtrSize)
BucketAddr(table, b) == table + (b * PtrSize)

\* ---------------------------------------------------------------- actions
\* lines 56-60
OpenFiles ==
    /\ pc = "openfiles"
    /\ UNCHANGED <<livevars, tvars>>
    /\ \/ /\ kd' = "open"
          /\ pc' = "nlist"
          /\ UNCHANGED <<err, exit_status>>
       \/ /\ kd' = "null"
          /\ Fail("Failed to open files for KVM")
    /\ UNCHANGED <<image, rc, symbols, lockfilehashsize, lockfilehashtable,
                   bucket, cur, total_lockfiles, leaked_lockfiles, out, reads>>

\* lines 62-66: kvm_nlist returns -1 when the name list cannot be read,
\* otherwise the number of symbols it did not find; a symbol that is not
\* found has n_value 0
Nlist ==
    /\ pc = "nlist"
    /\ UNCHANGED <<livevars, tvars>>
    /\ \E r \in {-1, Cardinality(SymNames \ image.syms)} :
         /\ rc' = r
         /\ IF r < 0
            THEN /\ Fail("Failed to read symbols")
                 /\ UNCHANGED symbols
            ELSE /\ symbols' = [s \in SymNames |->
                        IF s \notin image.syms THEN 0
                        ELSE IF s = SYMBOL_LOCKHASH THEN SymHashAddr
                        ELSE SymSizeAddr]
                 /\ pc' = "read_size"
                 /\ UNCHANGED <<err, exit_status>>
    /\ UNCHANGED <<image, kd, lockfilehashsize, lockfilehashtable, bucket, cur,
                   total_lockfiles, leaked_lockfiles, out, reads>>

\* lines 68-72
ReadSize ==
    /\ pc = "read_size"
    /\ UNCHANGED <<livevars, tvars>>
    /\ LET a == symbols[SYMBOL_LOCKHASH_SIZE] IN
       \E r \in ReadRcs(MappedInt(a), IntSize, ShortIntLens) :
         /\ rc' = r
         /\ Log(a, IntSize, r)
         /\ IF r < 0
            THEN /\ Fail("Failed to read lockfilehash size")
                 /\ UNCHANGED lockfilehashsize
            ELSE /\ \E g \in GarbageBytes :
                      lockfilehashsize' = IntAfterRead(a, r, g)
                 /\ pc' = "read_table"
                 /\ UNCHANGED <<err, exit_status>>
    /\ UNCHANGED <<image, kd, symbols, lockfilehashtable, bucket, cur,
                   total_lockfiles, leaked_lockfiles, out>>

\* lines 74-81
ReadTable ==
    /\ pc = "read_table"
    /\ UNCHANGED <<livevars, tvars>>
    /\ LET a == symbols[SYMBOL_LOCKHASH] IN
       \E r \in ReadRcs(MappedPtr(a), PtrSize, ShortPtrLens) :
         /\ rc' = r
         /\ Log(a, PtrSize, r)
         /\ IF r < 0
            THEN /\ Fail("Failed to read lockfilehash pointer")
                 /\ UNCHANGED <<lockfilehashtable, total_lockfiles,
                                leaked_lockfiles, bucket>>
            ELSE /\ \E v \in (IF r = PtrSize THEN {MemPtr(a)}
                              ELSE {MemPtr(a)} \cup GarbagePtrs) :
                      lockfilehashtable' = v
                 /\ total_lockfiles' = 0
                 /\ leaked_lockfiles' = 0
                 /\ bucket' = 0
                 /\ pc' = "for"
                 /\ UNCHANGED <<err, exit_status>>
    /\ UNCHANGED <<image, kd, symbols, lockfilehashsize, cur, out>>

\* lines 82-89: the loop condition holds, the bucket head is read
ReadBucket ==
    /\ pc = "for"
    /\ UNCHANGED <<livevars, tvars>>
    /\ LoopCond(bucket, lockfilehashsize)
    /\ LET a == BucketAddr(lockfilehashtable, bucket) IN
       \E r \in ReadRcs(MappedPtr(a), PtrSize, ShortPtrLens) :
         /\ rc' = r
         /\ Log(a, PtrSize, r)
         /\ IF r < 0
            THEN /\ Fail("Failed to read bucket pointer")
                 /\ UNCHANGED cur
            ELSE /\ \E v \in (IF r = PtrSize THEN {MemPtr(a)}
                              ELSE {MemPtr(a)} \cup GarbagePtrs) :
                      cur' = v
                 /\ pc' = "while"
                 /\ UNCHANGED <<err, exit_status>>
    /\ UNCHANGED <<image, kd, symbols, lockfilehashsize, lockfilehashtable,
                   bucket, total_lockfiles, leaked_lockfiles, out>>

\* ReadRecord with total_lockfiles++ moved into the else branch of line 103
ReadRecordCountsLiveOnly ==
    /\ pc = "while"
    /\ UNCHANGED <<livevars, tvars>>
    /\ cur # 0
    /\ total_lockfiles < MaxVisits
    /\ \E r \in ReadRcs(MappedRec(cur), RecSize, ShortRecLens) :
         /\ rc' = r
         /\ Log(cur, RecSize, r)
         /\ IF r < 0
            THEN /\ Fail("Failed to read lockfile")
                 /\ UNCHANGED <<cur, total_lockfiles, leaked_lockfiles>>
            ELSE /\ \E ga \in {0, OtherAddr}, gn \in GarbagePtrs :
                      LET lockfile ==
                            IF r = RecSize THEN MemRec(cur)
                            ELSE RecAfterRead(cur, r \div PtrSize, ga, gn)
                      IN /\ total_lockfiles' =
                              IF Classify(lockfile) THEN total_lockfiles
                              ELSE total_lockfiles + 1
                         /\ leaked_lockfiles' =
                              IF Classify(lockfile) THEN leaked_lockfiles + 1
                              ELSE leaked_lockfiles
                         /\ cur' = lockfile.le_next
                 /\ UNCHANGED <<pc, err, exit_status>>
    /\ UNCHANGED <<image, kd, symbols, lockfilehashsize, lockfilehashtable,
                   bucket, out>>

\* lines 91-108: one iteration of the while loop
ReadRecord ==
    /\ pc = "while"
    /\ UNCHANGED <<livevars, tvars>>
    /\ cur # 0
    /\ total_lockfiles < MaxVisits
    /\ \E r \in ReadRcs(MappedRec(cur), RecSize, ShortRecLens) :
         /\ rc' = r
         /\ Log(cur, RecSize, r)
         /\ IF r < 0
            THEN /\ Fail("Failed to read lockfile")
                 /\ UNCHANGED <<cur, total_lockfiles, leaked_lockfiles>>
            ELSE /\ \E ga \in {0, OtherAddr}, gn \in GarbagePtrs :
                      LET lockfile ==
                            IF r = RecSize THEN MemRec(cur)
                            ELSE RecAfterRead(cur, r \div PtrSize, ga, gn)
                      IN /\ total_lockfiles' = total_lockfiles + 1
                         /\ leaked_lockfiles' =
                              IF Classify(lockfile) THEN leaked_lockfiles + 1
                              ELSE leaked_lockfiles
                         /\ cur' = lockfile.le_next
                 /\ UNCHANGED <<pc, err, exit_status>>
    /\ UNCHANGED <<image, kd, symbols, lockfilehashsize, lockfilehashtable,
                   bucket, out>>

\* NextBucket with the loop variable advanced by two
NextBucketSkip ==
    /\ pc = "while"
    /\ UNCHANGED <<livevars, tvars>>
    /\ cur = 0
    /\ bucket' = bucket + 2
    /\ pc' = "for"
    /\ UNCHANGED <<image, kd, rc, symbols, lockfilehashsize, lockfilehashtable,
                   cur, total_lockfiles, leaked_lockfiles, out, err,
                   exit_status, reads>>

\* lines 91, 109, 82: the chain is exhausted, bucket++
NextBucket ==
    /\ pc = "while"
    /\ UNCHANGED <<livevars, tvars>>
    /\ cur = 0
    /\ bucket' = bucket + 1
    /\ pc' = "for"
    /\ UNCHANGED <<image, kd, rc, symbols, lockfilehashsize, lockfilehashtable,
                   cur, total_lockfiles, leaked_lockfiles, out, err,
                   exit_status, reads>>

\* lines 82, 111-113: the loop condition fails, the two lines are printed
\* and main returns 0 by falling off its end
Report ==
    /\ pc = "for"
    /\ UNCHANGED <<livevars, tvars>>
    /\ ~LoopCond(bucket, lockfilehashsize)
    /\ out' = out \o <<[text |-> "Total file handles: ", value |-> total_lockfiles],
                       [text |-> "Lost file handles: ", value |-> leaked_lockfiles]>>
    /\ exit_status' = 0
    /\ pc' = "exit"
    /\ UNCHANGED <<image, kd, rc, symbols, lockfilehashsize, lockfilehashtable,
                   bucket, cur, total_lockfiles, leaked_lockfiles, err, reads>>

Next ==
    \/ OpenFiles
    \/ Nlist
    \/ ReadSize
    \/ ReadTable
    \/ ReadBucket
    \/ ReadRecord
    \/ NextBucket
    \/ Report

\* ------------------------------------------------------------ initial states
Start ==
    /\ pc = "openfiles"
    /\ kd = "none"
    /\ rc = 0
    /\ symbols = [s \in SymNames |-> 0]
    /\ lockfilehashsize = 0
    /\ lockfilehashtable = 0
    /\ bucket = 0
    /\ cur = 0
    /\ total_lockfiles = 0
    /\ leaked_lockfiles = 0
    /\ out = <<>>
    /\ err = <<>>
    /\ exit_status = -1
    /\ reads = <<>>
    /\ lockfile_buf = Rec({}, 0)
    /\ mutations = 0

\* nfs-trigger-lockfile-bug.c before main() runs, started with a arguments
\* while FILEPATH exists (e) or not on the server
TriggerStart(a, e) ==
    /\ tpc = "args"
    /\ argc = a
    /\ handler = FALSE
    /\ shutdown = 0
    /\ nfs = FALSE
    /\ parsed_url = FALSE
    /\ count = 0
    /\ return_code = 0
    /\ ret = 0
    /\ tout = <<>>
    /\ terr = <<>>
    /\ texit = -1
    /\ exists = e
    /\ interference = 0
    /\ ops = <<>>
    /\ destroyed = <<>>

HeadSeqs(n) == [1..n -> Ptrs]
Palette == {{}, {"lf_open"}}

\* any table of at most MaxBuckets buckets over MaxRecords records, chains of
\* any shape (shared, cyclic); a bucket count that matches the array or is
\* negative as an int; either symbol possibly absent
Images ==
    { [syms |-> SymNames, size |-> sz, heads |-> h,
       recs |-> [a \in RecAddrs |-> Rec(as[a], nx[a])]] :
        sz \in NegativeCounts, h \in {[i \in 1..MaxBuckets |-> RecAddr(1)]},
        as \in [RecAddrs -> Palette], nx \in [RecAddrs -> Ptrs] }
    \cup
    UNION { { [syms |-> SymNames, size |-> Bytes32(n), heads |-> h,
               recs |-> [a \in RecAddrs |-> Rec(as[a], nx[a])]] :
                h \in HeadSeqs(n),
                as \in [RecAddrs -> Palette], nx \in [RecAddrs -> Ptrs] }
            : n \in 0..MaxBuckets }
    \cup
    { [syms |-> sy, size |-> Bytes32(1), heads |-> <<RecAddr(1)>>,
       recs |-> [a \in RecAddrs |-> Rec({}, 0)]] :
        sy \in (SUBSET SymNames) \ {SymNames} }

Init ==
    /\ image \in Images
    /\ Start
    /\ TriggerStart(3, FALSE)

Spec == Init /\ [][Next]_vars

\* single-bucket tables whose first record takes every combination of null
\* and non-null association pointers
TruthTableImages ==
    { [syms |-> SymNames, size |-> Bytes32(1), heads |-> <<RecAddr(1)>>,
       recs |-> [a \in RecAddrs |->
                    IF a = RecAddr(1) THEN Rec(as, nx) ELSE Rec(as2, 0)]] :
        as \in SUBSET AssocNames, nx \in {0, RecAddr(MaxRecords)},
        as2 \in Palette }

InitTruthTable ==
    /\ image \in TruthTableImages
    /\ Start
    /\ TriggerStart(3, FALSE)

SpecTruthTable == InitTruthTable /\ [][Next]_vars

\* the records on the chain that starts at a, following at most fuel links
RECURSIVE ChainSet(_, _, _)
ChainSet(im, a, fuel) ==
    IF a = 0 \/ fuel = 0 THEN {}
    ELSE {a} \cup ChainSet(im, im.recs[a].le_next, fuel - 1)

RECURSIVE NullTerminated(_, _, _)
NullTerminated(im, a, fuel) ==
    IF a = 0 THEN TRUE
    ELSE IF fuel = 0 THEN FALSE
    ELSE NullTerminated(im, im.recs[a].le_next, fuel - 1)

\* the records the table holds
TableRecords(im) ==
    UNION {ChainSet(im, im.heads[i], MaxRecords) : i \in DOMAIN im.heads}

\* every chain ends in null and no record is on two chains
WellFormed(im) ==
    /\ \A i \in DOMAIN im.heads : NullTerminated(im, im.heads[i], MaxRecords)
    /\ \A i, j \in DOMAIN im.heads :
         i # j => ChainSet(im, im.heads[i], MaxRecords)
                    \cap ChainSet(im, im.heads[j], MaxRecords) = {}

StaticImages ==
    {im \in Images : /\ im.syms = SymNames
                     /\ Int32(im.size) = Len(im.heads)
                     /\ WellFormed(im)}

InitStatic ==
    /\ image \in StaticImages
    /\ Start
    /\ TriggerStart(3, FALSE)

\* main() is a sequential program: it keeps running until it returns
SpecStatic == InitStatic /\ [][Next]_vars /\ WF_vars(Next)

\* ------------------------------------------------------- state descriptions
Exited == pc = "exit"
Succeeded == pc = "exit" /\ exit_status = 0
Failed == pc = "exit" /\ exit_status = 1
ResultLines(t, l) == <<[text |-> "Total file handles: ", value |-> t],
                       [text |-> "Lost file handles: ", value |-> l]>>

\* the address of a logged read holds an object of the size that was read
MappedFor(e) ==
    IF e.size = IntSize THEN MappedInt(e.addr)
    ELSE IF e.size = PtrSize THEN MappedPtr(e.addr)
    ELSE MappedRec(e.addr)
\* every read of existing memory transferred all the bytes requested
NoReadFault == \A i \in DOMAIN reads : MappedFor(reads[i]) => reads[i].rc = reads[i].size
AllReadsFull == \A i \in DOMAIN reads : reads[i].rc = reads[i].size
SomeShortRead == \E i \in DOMAIN reads : IsShort(reads[i])
SymbolMissing == image.syms # SymNames /\ kd = "open" /\ pc \notin {"openfiles", "nlist"}
\* the bucket count has been read (kvm_read did not return an error)
SizeRead == Len(reads) >= 1 /\ reads[1].rc >= 0
\* the record reads since the last bucket head was read
ChainReads ==
    LET heads == {i \in DOMAIN reads : i >= 3 /\ reads[i].size = PtrSize}
    IN {i \in DOMAIN reads : /\ reads[i].size = RecSize
                              /\ \A h \in heads : h < i}
Revisited == \E i, j \in ChainReads : i < j /\ reads[i].addr = reads[j].addr
AllNull(r) == \A f \in AssocNames : r[f] = 0

\* a step that visits a record whose bytes were all transferred
VisitFull ==
    /\ pc = "while"
    /\ total_lockfiles' = total_lockfiles + 1
    /\ Len(reads') = Len(reads) + 1
    /\ reads'[Len(reads')].rc = RecSize

\* ------------------------------------------------------------------ claims

\* C1 (as claimed): a visited record is counted as lost if and only if all
\* five association pointers (open, delegation, lock, local-lock, rollback)
\* are null.
C1_LostIffAllFiveNull ==
    [][VisitFull =>
         ((leaked_lockfiles' = leaked_lockfiles + 1) <=> AllNull(MemRec(cur)))]_vars

\* C1 (amended): a visited record is counted as lost if and only if its open
\* pointer and its lock pointer are both null, whatever its delegation,
\* local-lock and rollback pointers are; otherwise the lost count is unchanged.
C1_LostIffOpenAndLockNull ==
    [][VisitFull =>
         /\ (leaked_lockfiles' = leaked_lockfiles + 1)
               <=> (MemRec(cur).lf_open = 0 /\ MemRec(cur).lf_lock = 0)
         /\ leaked_lockfiles' \in {leaked_lockfiles, leaked_lockfiles + 1}]_vars

\* a record with a delegation but no open and no lock was read in full and
\* counted as lost
C1_Witness ==
    /\ Len(reads) = 4
    /\ AllReadsFull
    /\ image.recs[reads[4].addr].lf_deleg # 0
    /\ image.recs[reads[4].addr].lf_open = 0
    /\ image.recs[reads[4].addr].lf_lock = 0
    /\ total_lockfiles = 1
    /\ leaked_lockfiles = 1

\* C2: on a static table of B buckets holding R records on null-terminated,
\* disjoint chains, with every read succeeding, the scan finishes, exits 0
\* and reports total = R.
C2_TotalEqualsR ==
    /\ []((Exited /\ reads # <<>> /\ NoReadFault) =>
            /\ exit_status = 0
            /\ total_lockfiles = Cardinality(TableRecords(image))
            /\ Len(out) = 2
            /\ out[1] = [text |-> "Total file handles: ",
                         value |-> Cardinality(TableRecords(image))])
    /\ <>(Exited \/ ~NoReadFault)

\* a scan without faults over two buckets that hold two or more records
C2_Witness ==
    /\ Succeeded
    /\ NoReadFault
    /\ Len(image.heads) = 2
    /\ image.heads[1] # 0
    /\ image.heads[2] # 0
    /\ total_lockfiles >= 2
    /\ out # <<>>

\* a failure in the sense of sections 4 and 7 of the design: the image could
\* not be opened, the name list could not be read or lacks a symbol, or a
\* read returned an error or fewer bytes than requested
OpenFailed == kd = "null"
NlistFailed == kd = "open" /\ Exited /\ reads = <<>>
ComponentError == OpenFailed \/ NlistFailed \/ SymbolMissing \/ ~AllReadsFull

\* C3: whenever the scan fails at any stage nothing is written to stdout and
\* the process exits with status 1; the two result lines are written only by
\* a scan that ran to completion and exits 0.
C3_FailureIsSilent ==
    /\ ComponentError => (out = <<>> /\ (Exited => exit_status = 1))
    /\ out # <<>> => (Succeeded /\ ~LoopCond(bucket, lockfilehashsize))

\* C4: when a chain of a static table leads back to an address already
\* visited in that chain, the walk does not go round the cycle: the scan
\* fails without printing a result.
C4_CycleFails ==
    (AllReadsFull /\ Revisited) => (Failed /\ out = <<>>)

\* C5: if a required symbol is absent from the image the scan stops at
\* symbol resolution: no memory read is issued, nothing is written to
\* stdout, the error names the failure to resolve symbols, exit status 1.
C5_MissingSymbolStops ==
    SymbolMissing =>
        /\ reads = <<>>
        /\ out = <<>>
        /\ Failed
        /\ err = <<"Failed to read symbols">>

\* C6: a read that returns fewer bytes than requested aborts the scan with
\* exit status 1; the partially filled buffer is never used.
C6_ShortReadIsFault ==
    SomeShortRead =>
        /\ Failed
        /\ out = <<>>
        /\ IsShort(reads[Len(reads)])

\* the configured ceiling on the bucket count (design section 3)
MAX_SANE_BUCKETS == MaxBuckets

\* C7: a bucket count outside 0..MAX_SANE_BUCKETS (such as a value that is
\* negative as a signed 32-bit integer) never yields a successful result.
C7_InsaneCountAborts ==
    (/\ Len(reads) >= 1
     /\ AllReadsFull
     /\ lockfilehashsize \notin 0..MAX_SANE_BUCKETS) => ~Succeeded

\* C8: once the image has been opened, the handle is closed before the
\* process exits, on every exit path.
C8_HandleReleased ==
    (Exited /\ kd # "null") => kd = "closed"

\* C9 (as claimed): when the bucket count read is 0 the scan succeeds with
\* total 0, lost 0 and exit status 0, and no read is issued at the resolved
\* hash-table base address or at any bucket or record address.
C9_EmptyTableNoDereference ==
    (SizeRead /\ lockfilehashsize = 0) =>
        /\ \A i \in DOMAIN reads :
              reads[i].addr \notin ({symbols[SYMBOL_LOCKHASH]} \cup SlotAddrs \cup RecAddrs)
        /\ Exited => (exit_status = 0 /\ out = ResultLines(0, 0))

\* C9 (amended): when the bucket count read is 0 the scan issues exactly one
\* more read, of the table pointer stored at the hash-table symbol; if that
\* read returns an error the scan exits 1 without output, otherwise it exits
\* 0 with total 0 and lost 0.  No read is issued at the bucket array the
\* pointer refers to, or at any bucket or record address.
C9_EmptyTableOnlyDescriptorReads ==
    (SizeRead /\ lockfilehashsize = 0) =>
        /\ Len(reads) <= 2
        /\ \A i \in DOMAIN reads :
              /\ reads[i].addr = (IF i = 1 THEN symbols[SYMBOL_LOCKHASH_SIZE]
                                  ELSE symbols[SYMBOL_LOCKHASH])
              /\ reads[i].addr \notin (SlotAddrs \cup RecAddrs)
        /\ Len(reads) = 2 /\ reads[2].rc >= 0 =>
              reads[2].addr # lockfilehashtable
        /\ total_lockfiles = 0
        /\ leaked_lockfiles = 0
        /\ Exited =>
              /\ Len(reads) = 2
              /\ IF reads[2].rc < 0
                 THEN exit_status = 1 /\ out = <<>>
                 ELSE exit_status = 0 /\ out = ResultLines(0, 0)

\* the image holds a bucket count of 0 and the scan reported 0 and 0 after
\* the two descriptor reads
C9_Witness ==
    /\ Int32(image.size) = 0
    /\ lockfilehashsize = 0
    /\ Len(reads) = 2
    /\ AllReadsFull
    /\ Succeeded
    /\ out = ResultLines(0, 0)

\* C10: the stages are entered only in the order image opened, symbols
\* resolved, descriptor read, walking, done: no memory read before symbol
\* resolution has succeeded, no bucket read before the descriptor has been
\* read, the result only from done after the last chain is exhausted, and a
\* failure at any stage leads to the failed state and no further.
C10_StageOrder ==
    /\ reads # <<>> => (kd = "open" /\ image.syms = SymNames)
    /\ Len(reads) >= 3 => (reads[1].rc = IntSize /\ reads[2].rc = PtrSize)
    /\ pc \in {"for", "while"} => Len(reads) >= 2
    /\ out # <<>> => (Succeeded /\ ~LoopCond(bucket, lockfilehashsize))
    /\ ComponentError => Failed

\* the reads of bucket heads, and the number of such reads before read i
BucketReads == {i \in DOMAIN reads : i >= 3 /\ reads[i].size = PtrSize}
BucketRank(i) == Cardinality({j \in BucketReads : j < i})
RecordReadsOk == {i \in DOMAIN reads : reads[i].size = RecSize /\ reads[i].rc >= 0}

\* C14: the walk makes one pass: the k-th bucket head read is the read of
\* bucket k-1 at table base + (k-1) * pointer size, with k-1 below the bucket
\* count; a bucket head is read only after the previous chain reached null;
\* a completed scan has read every bucket in [0, bucketCount) exactly once.
C14_OnePass ==
    /\ \A i \in BucketReads :
          /\ reads[i].addr = lockfilehashtable + (BucketRank(i) * PtrSize)
          /\ BucketRank(i) < lockfilehashsize
    /\ pc = "for" => /\ Cardinality(BucketReads) = bucket
                     /\ bucket > 0 => cur = 0
    /\ pc = "while" => Cardinality(BucketReads) = bucket + 1
    /\ Succeeded =>
          /\ Cardinality(BucketReads) =
                (IF lockfilehashsize > 0 THEN lockfilehashsize ELSE 0)
          /\ bucket = Cardinality(BucketReads)

\* a completed scan that read the heads of two buckets, the first of which
\* holds a record
C14_Witness ==
    /\ Succeeded
    /\ AllReadsFull
    /\ Cardinality(BucketReads) = 2
    /\ reads[3].addr = SlotAddr(0)
    /\ reads[4].size = RecSize
    /\ reads[Len(reads)].addr # SlotAddr(0)

\* C15: after the first failing operation (failed open, failed symbol
\* resolution, failed read) no further operation is issued against the
\* image, and exactly one diagnostic message is written for the whole run.
C15_NothingAfterFirstFailure ==
    /\ \A i \in DOMAIN reads : reads[i].rc # reads[i].size => i = Len(reads)
    /\ SymbolMissing => reads = <<>>
    /\ Len(err) <= 1
    /\ (Exited /\ ComponentError) => Len(err) = 1

\* C19: 0 <= lost <= total in every state; neither counter decreases; total
\* grows by exactly 1 with every record read and at no other step; lost
\* grows by at most 1 and only in a step in which total grows.
C19_Counters ==
    /\ [](0 <= leaked_lockfiles /\ leaked_lockfiles <= total_lockfiles)
    /\ [](total_lockfiles = Cardinality(RecordReadsOk))
    /\ [][/\ total_lockfiles' \in {total_lockfiles, total_lockfiles + 1}
          /\ leaked_lockfiles' \in {leaked_lockfiles, leaked_lockfiles + 1}
          /\ leaked_lockfiles' # leaked_lockfiles =>
                total_lockfiles' = total_lockfiles + 1
          /\ total_lockfiles' = total_lockfiles + 1 <=>
                /\ Len(reads') = Len(reads) + 1
                /\ reads'[Len(reads')].size = RecSize
                /\ reads'[Len(reads')].rc >= 0]_vars

\* two records were read, one counted as lost and one not
C19_Witness ==
    /\ total_lockfiles = 2
    /\ leaked_lockfiles = 1
    /\ Cardinality(RecordReadsOk) = 2

\* ---------------------------------------------- the scan of a running kernel
\* The while loop body in three steps, so that the kernel can change the
\* table between the kvm_read of a record and the uses of the buffer.

\* line 107 reading the successor from kernel memory again
NextOfRecordReread == MemRec(cur).le_next
\* line 107: lockfile.lf_hash.le_next
NextOfRecord == lockfile_buf.le_next

\* lines 91-98
ReadRecordLive ==
    /\ pc = "while"
    /\ cur # 0
    /\ total_lockfiles < MaxVisits
    /\ \E r \in ReadRcs(MappedRec(cur), RecSize, ShortRecLens) :
         /\ rc' = r
         /\ Log(cur, RecSize, r)
         /\ IF r < 0
            THEN /\ Fail("Failed to read lockfile")
                 /\ UNCHANGED lockfile_buf
            ELSE /\ \E ga \in {0, OtherAddr}, gn \in GarbagePtrs :
                      lockfile_buf' = IF r = RecSize THEN MemRec(cur)
                                      ELSE RecAfterRead(cur, r \div PtrSize, ga, gn)
                 /\ pc' = "count"
                 /\ UNCHANGED <<err, exit_status>>
    /\ UNCHANGED <<image, kd, symbols, lockfilehashsize, lockfilehashtable,
                   bucket, cur, total_lockfiles, leaked_lockfiles, out,
                   mutations, tvars>>

\* lines 100-105
CountRecord ==
    /\ pc = "count"
    /\ total_lockfiles' = total_lockfiles + 1
    /\ leaked_lockfiles' = IF Classify(lockfile_buf) THEN leaked_lockfiles + 1
                           ELSE leaked_lockfiles
    /\ pc' = "advance"
    /\ UNCHANGED <<image, kd, rc, symbols, lockfilehashsize, lockfilehashtable,
                   bucket, cur, out, err, exit_status, reads, livevars, tvars>>

\* line 107
Advance ==
    /\ pc = "advance"
    /\ cur' = NextOfRecord
    /\ pc' = "while"
    /\ UNCHANGED <<image, kd, rc, symbols, lockfilehashsize, lockfilehashtable,
                   bucket, total_lockfiles, leaked_lockfiles, out, err,
                   exit_status, reads, livevars, tvars>>

\* the observed kernel relinks a chain, changes a bucket head, or attaches or
\* detaches an open, lock, delegation, ... of a record while the walk runs
Mutate ==
    /\ pc \in {"for", "while", "count", "advance"}
    /\ mutations < MaxMutations
    /\ mutations' = mutations + 1
    /\ \/ \E a \in RecAddrs, v \in Ptrs :
            /\ image.recs[a].le_next # v
            /\ image' = [image EXCEPT !.recs[a].le_next = v]
       \/ \E i \in DOMAIN image.heads, v \in Ptrs :
            /\ image.heads[i] # v
            /\ image' = [image EXCEPT !.heads[i] = v]
       \/ \E a \in RecAddrs, f \in AssocNames :
            image' = [image EXCEPT !.recs[a][f] =
                         IF image.recs[a][f] = 0 THEN OtherAddr ELSE 0]
    /\ UNCHANGED <<pc, kd, rc, symbols, lockfilehashsize, lockfilehashtable,
                   bucket, cur, total_lockfiles, leaked_lockfiles, out, err,
                   exit_status, reads, lockfile_buf, tvars>>

NextLive ==
    \/ OpenFiles
    \/ Nlist
    \/ ReadSize
    \/ ReadTable
    \/ ReadBucket
    \/ ReadRecordLive
    \/ CountRecord
    \/ Advance
    \/ NextBucket
    \/ Report
    \/ Mutate

\* well-formed tables of MaxBuckets buckets whose records are all orphans
LiveImages ==
    {im \in StaticImages : /\ Len(im.heads) = MaxBuckets
                           /\ \A a \in RecAddrs : \A f \in AssocNames : im.recs[a][f] = 0}

InitLive ==
    /\ image \in LiveImages
    /\ Start
    /\ TriggerStart(3, FALSE)

SpecLive == InitLive /\ [][NextLive]_vars

\* the ceiling on record visits of one scan (design section 4.4)
VisitCeiling == MaxRecords + 1

\* C16: while the kernel changes the table during a scan, the number of
\* record visits stays below a fixed ceiling: the scan ends in done or in
\* failed, it does not keep walking.
C16_VisitsBelowCeiling ==
    AllReadsFull => total_lockfiles <= VisitCeiling

\* C17: each visit issues exactly one read of the record; the classification
\* and the successor are taken from the buffer filled by that read, which a
\* later change of the record in kernel memory does not alter; the record is
\* not read again.
C17_SingleSnapshot ==
    /\ [](Cardinality(RecordReadsOk) =
             total_lockfiles + (IF pc = "count" THEN 1 ELSE 0))
    /\ [][(pc = "while" /\ pc' = "count" /\ rc' = RecSize) =>
             lockfile_buf' = image.recs[cur]]_vars
    /\ [][(pc = "count" /\ pc' = "advance") =>
             /\ (leaked_lockfiles' = leaked_lockfiles + 1)
                    <=> (lockfile_buf.lf_open = 0 /\ lockfile_buf.lf_lock = 0)
             /\ leaked_lockfiles' \in {leaked_lockfiles, leaked_lockfiles + 1}
             /\ total_lockfiles' = total_lockfiles + 1]_vars
    /\ [][(pc = "advance" /\ pc' = "while") => cur' = lockfile_buf.le_next]_vars
    /\ [][(pc = "count" \/ pc = "advance") =>
             (lockfile_buf' = lockfile_buf /\ reads' = reads)]_vars

\* the kernel changed the successor of the record after it was read in full
\* and before the walk advanced, and the walk then followed the successor of
\* the buffer
C17_Witness ==
    /\ pc = "while"
    /\ mutations = 1
    /\ AllReadsFull
    /\ reads # <<>>
    /\ reads[Len(reads)].size = RecSize
    /\ cur = lockfile_buf.le_next
    /\ image.recs[reads[Len(reads)].addr].le_next # lockfile_buf.le_next
    /\ total_lockfiles = 1

\* ================================================ nfs-trigger-lockfile-bug.c
\* errno values libnfs returns negated
EEXIST == 17
EIO == 5
ENOENT == 2
ArgCounts == {1, 3, 4}

\* what the server answers, and whether FILEPATH exists afterwards
UnlinkOutcomes(ex) ==
    IF ex THEN {[ret |-> 0, exists |-> FALSE], [ret |-> -EIO, exists |-> TRUE]}
    ELSE {[ret |-> -ENOENT, exists |-> FALSE], [ret |-> -EIO, exists |-> FALSE]}
CreateOutcomes(ex) ==
    {[ret |-> 0, exists |-> TRUE], [ret |-> -EIO, exists |-> ex]}
ExclOutcomes(ex) ==
    IF ex THEN {[ret |-> -EEXIST, exists |-> TRUE], [ret |-> -EIO, exists |-> TRUE]}
    ELSE {[ret |-> 0, exists |-> TRUE], [ret |-> -EIO, exists |-> FALSE]}
CloseOutcomes == {0, -EIO}

TFail(msg) ==
    /\ terr' = Append(terr, msg)
    /\ return_code' = 1
    /\ tpc' = "cleanup"

TLog(o, r) == ops' = Append(ops, [op |-> o, ret |-> r, existed |-> exists])

\* line 91 without the test of the flag
LoopContinuesAlways(sd) == TRUE
\* line 91: while (!shutdown)
LoopContinues(sd) == sd = 0

\* line 111: ret < 0 && ret != -17
ExclUnexpected(r) == r < 0 /\ r # -EEXIST

\* lines 137-144 with the context destroyed first
CleanupContextFirst(u, n) ==
    (IF n THEN <<"nfs_destroy_context">> ELSE <<>>)
        \o (IF u THEN <<"nfs_destroy_url">> ELSE <<>>)
\* lines 137-144: the destroy calls of the cleanup label, in order
Cleanup(u, n) ==
    (IF u THEN <<"nfs_destroy_url">> ELSE <<>>)
        \o (IF n THEN <<"nfs_destroy_context">> ELSE <<>>)

\* lines 54-63
TArgs ==
    /\ tpc = "args"
    /\ IF argc # 3
       THEN /\ tout' = Append(tout, [text |-> "Usage: URL FILEPATH", value |-> 0])
            /\ return_code' = 1
            /\ tpc' = "cleanup"
            /\ UNCHANGED handler
       ELSE /\ handler' = TRUE
            /\ tpc' = "init"
            /\ UNCHANGED <<tout, return_code>>
    /\ UNCHANGED <<argc, shutdown, nfs, parsed_url, count, ret, terr, texit,
                   exists, interference, ops, destroyed, svars, livevars>>

\* lines 65-70
TInitContext ==
    /\ tpc = "init"
    /\ \E ok \in BOOLEAN :
         /\ nfs' = ok
         /\ TLog("nfs_init_context", IF ok THEN 0 ELSE -1)
         /\ IF ok THEN /\ tpc' = "parse"
                       /\ UNCHANGED <<terr, return_code>>
            ELSE TFail("Failed to initialize NFS context")
    /\ UNCHANGED <<argc, handler, shutdown, parsed_url, count, ret, tout, texit,
                   exists, interference, destroyed, svars, livevars>>

\* lines 72-77
TParseUrl ==
    /\ tpc = "parse"
    /\ \E ok \in BOOLEAN :
         /\ parsed_url' = ok
         /\ TLog("nfs_parse_url_dir", IF ok THEN 0 ELSE -1)
         /\ IF ok THEN /\ tpc' = "mount"
                       /\ UNCHANGED <<terr, return_code>>
            ELSE TFail("Failed to parse URL")
    /\ UNCHANGED <<argc, handler, shutdown, nfs, count, ret, tout, texit,
                   exists, interference, destroyed, svars, livevars>>

\* lines 80-85
TMount ==
    /\ tpc = "mount"
    /\ \E r \in {0, -EIO} :
         /\ ret' = r
         /\ TLog("nfs_mount", r)
         /\ IF r < 0 THEN TFail("Failed to mount nfs share")
            ELSE /\ tpc' = "unlink_first"
                 /\ UNCHANGED <<terr, return_code>>
    /\ UNCHANGED <<argc, handler, shutdown, nfs, parsed_url, count, tout, texit,
                   exists, interference, destroyed, svars, livevars>>

\* lines 87-89: the return value of nfs_unlink is not looked at
TUnlinkFirst ==
    /\ tpc = "unlink_first"
    /\ \E o \in UnlinkOutcomes(exists) :
         /\ exists' = o.exists
         /\ TLog("nfs_unlink_first", o.ret)
    /\ tout' = Append(tout, [text |-> "Running. Press CTRL+C to exit", value |-> 0])
    /\ tpc' = "while"
    /\ UNCHANGED <<argc, handler, shutdown, nfs, parsed_url, count, return_code,
                   ret, terr, texit, interference, destroyed, svars, livevars>>

\* line 91, the loop entered
TLoopEnter ==
    /\ tpc = "while"
    /\ LoopContinues(shutdown)
    /\ count < MaxCycles
    /\ tpc' = "create"
    /\ UNCHANGED <<argc, handler, shutdown, nfs, parsed_url, count, return_code,
                   ret, tout, terr, texit, exists, interference, ops, destroyed,
                   svars, livevars>>

\* lines 91, 135: the loop left, the count printed
TLoopExit ==
    /\ tpc = "while"
    /\ ~LoopContinues(shutdown)
    /\ tout' = Append(tout, [text |-> "Created lost lockfile structs", value |-> count])
    /\ tpc' = "cleanup"
    /\ UNCHANGED <<argc, handler, shutdown, nfs, parsed_url, count, return_code,
                   ret, terr, texit, exists, interference, ops, destroyed,
                   svars, livevars>>

\* lines 95-100
TCreate ==
    /\ tpc = "create"
    /\ \E o \in CreateOutcomes(exists) :
         /\ ret' = o.ret
         /\ exists' = o.exists
         /\ TLog("nfs_open_creat", o.ret)
         /\ IF o.ret < 0 THEN TFail("Failed to create file")
            ELSE /\ tpc' = "close"
                 /\ UNCHANGED <<terr, return_code>>
    /\ UNCHANGED <<argc, handler, shutdown, nfs, parsed_url, count, tout, texit,
                   interference, destroyed, svars, livevars>>

\* lines 102-107
TClose ==
    /\ tpc = "close"
    /\ \E r \in CloseOutcomes :
         /\ ret' = r
         /\ TLog("nfs_close", r)
         /\ IF r < 0 THEN TFail("Failed to close file")
            ELSE /\ tpc' = "excl"
                 /\ UNCHANGED <<terr, return_code>>
    /\ UNCHANGED <<argc, handler, shutdown, nfs, parsed_url, count, tout, texit,
                   exists, interference, destroyed, svars, livevars>>

\* lines 110-119
TExcl ==
    /\ tpc = "excl"
    /\ \E o \in ExclOutcomes(exists) :
         /\ ret' = o.ret
         /\ exists' = o.exists
         /\ TLog("nfs_open_creat_excl", o.ret)
         /\ IF ExclUnexpected(o.ret)
            THEN TFail("Did not get expected error NFS4ERR_EXIST from open")
            ELSE /\ tpc' = "unlink"
                 /\ UNCHANGED <<terr, return_code>>
    /\ UNCHANGED <<argc, handler, shutdown, nfs, parsed_url, count, tout, texit,
                   interference, destroyed, svars, livevars>>

\* lines 122-127
TUnlink ==
    /\ tpc = "unlink"
    /\ \E o \in UnlinkOutcomes(exists) :
         /\ ret' = o.ret
         /\ exists' = o.exists
         /\ TLog("nfs_unlink", o.ret)
         /\ IF o.ret < 0 THEN TFail("Failed to unlink file")
            ELSE /\ tpc' = "count"
                 /\ UNCHANGED <<terr, return_code>>
    /\ UNCHANGED <<argc, handler, shutdown, nfs, parsed_url, count, tout, texit,
                   interference, destroyed, svars, livevars>>

\* lines 129-133
TCount ==
    /\ tpc = "count"
    /\ count' = count + 1
    /\ tpc' = "while"
    /\ UNCHANGED <<argc, handler, shutdown, nfs, parsed_url, return_code, ret,
                   tout, terr, texit, exists, interference, ops, destroyed,
                   svars, livevars>>

\* lines 137-146
TCleanup ==
    /\ tpc = "cleanup"
    /\ destroyed' = destroyed \o Cleanup(parsed_url, nfs)
    /\ texit' = return_code
    /\ tpc' = "exit"
    /\ UNCHANGED <<argc, handler, shutdown, nfs, parsed_url, count, return_code,
                   ret, tout, terr, exists, interference, ops, svars, livevars>>

\* lines 36-40, 63: SIGINT sets the flag once the handler is installed;
\* before that its default action terminates the process
Sigint ==
    /\ tpc \notin {"exit", "killed"}
    /\ shutdown = 0
    /\ IF handler THEN shutdown' = 1 /\ UNCHANGED tpc
       ELSE tpc' = "killed" /\ UNCHANGED shutdown
    /\ UNCHANGED <<argc, handler, nfs, parsed_url, count, return_code, ret,
                   tout, terr, texit, exists, interference, ops, destroyed,
                   svars, livevars>>

\* another client of the share creates or removes FILEPATH
OtherClient ==
    /\ tpc \notin {"exit", "killed"}
    /\ interference < MaxInterference
    /\ interference' = interference + 1
    /\ exists' = ~exists
    /\ UNCHANGED <<tpc, argc, handler, shutdown, nfs, parsed_url, count,
                   return_code, ret, tout, terr, texit, ops, destroyed,
                   svars, livevars>>

TProgram ==
    \/ TArgs
    \/ TInitContext
    \/ TParseUrl
    \/ TMount
    \/ TUnlinkFirst
    \/ TLoopEnter
    \/ TLoopExit
    \/ TCreate
    \/ TClose
    \/ TExcl
    \/ TUnlink
    \/ TCount
    \/ TCleanup

NextTrigger ==
    \/ TArgs
    \/ TInitContext
    \/ TParseUrl
    \/ TMount
    \/ TUnlinkFirst
    \/ TLoopEnter
    \/ TLoopExit
    \/ TCreate
    \/ TClose
    \/ TExcl
    \/ TUnlink
    \/ TCount
    \/ TCleanup
    \/ Sigint
    \/ OtherClient

InitTrigger ==
    /\ image = [syms |-> SymNames, size |-> Bytes32(0), heads |-> <<>>,
                recs |-> [a \in RecAddrs |-> Rec({}, 0)]]
    /\ Start
    /\ \E a \in ArgCounts, e \in BOOLEAN : TriggerStart(a, e)

\* main() is a sequential program whose libnfs calls return
SpecTrigger == InitTrigger /\ [][NextTrigger]_vars /\ WF_vars(TProgram)

\* ------------------------------------------------------- state descriptions
OpsOf(o) == {i \in DOMAIN ops : ops[i].op = o}
\* a libnfs call whose result the program treats as a failure of the run
CallFailed(e) ==
    /\ e.op # "nfs_unlink_first"
    /\ e.ret < 0
    /\ ~(e.op = "nfs_open_creat_excl" /\ e.ret = -EEXIST)
NoCallFailed == \A i \in DOMAIN ops : ~CallFailed(ops[i])
\* the cycles that ran to the end: their unlink succeeded
CompletedCycles == Cardinality({i \in OpsOf("nfs_unlink") : ops[i].ret >= 0})
CountLine(n) == [text |-> "Created lost lockfile structs", value |-> n]
RunningLine == [text |-> "Running. Press CTRL+C to exit", value |-> 0]

\* C11 (as claimed): once SIGINT has been delivered and the remote operations
\* have returned, the generator has started no new cycle, printed the number
\* of completed cycles and exited with status 0.
C11_InterruptExitsZero ==
    (tpc = "exit" /\ shutdown = 1) =>
        /\ texit = 0
        /\ tout = <<RunningLine, CountLine(CompletedCycles)>>

\* C11 (amended): the generator leaves the loop without a failure only after
\* SIGINT; once SIGINT has been delivered it starts no new cycle and exits;
\* if no libnfs call of the run failed it prints the number of completed
\* cycles and exits with status 0, and if a call of the current cycle fails
\* after the interrupt it exits with status 1 without printing a count.
C11_StopsAfterInterrupt ==
    /\ [](texit = 0 => shutdown = 1)
    /\ []((tpc = "cleanup" /\ shutdown = 0) => return_code = 1)
    /\ [][(tpc = "while" /\ shutdown = 1 /\ tpc' # tpc) =>
             (tpc' = "cleanup" /\ tout' = Append(tout, CountLine(count)))]_vars
    /\ []((tpc = "exit" /\ shutdown = 1) =>
            IF NoCallFailed
            THEN /\ texit = 0
                 /\ count = CompletedCycles
                 /\ tout = <<RunningLine, CountLine(CompletedCycles)>>
            ELSE /\ texit = 1
                 /\ \A i \in DOMAIN tout : tout[i].text # CountLine(0).text)
    /\ (shutdown = 1 ~> tpc = "exit")

\* the generator was interrupted after one or more completed cycles and
\* reported them
C11_Witness ==
    /\ tpc = "exit"
    /\ shutdown = 1
    /\ texit = 0
    /\ count >= 1
    /\ tout = <<RunningLine, CountLine(count)>>

\* C12: if the exclusive open returns anything but the already-exists error
\* (-17), success in particular, the cycle is not counted: the program
\* reports the unexpected result, leaves the loop and exits with status 1;
\* the count reported is the number of exclusive opens that returned -17.
C12_UnexpectedExclStops ==
    /\ \A i \in OpsOf("nfs_open_creat_excl") :
          ops[i].ret # -EEXIST =>
             /\ i = Len(ops)
             /\ return_code = 1
             /\ tpc \in {"cleanup", "exit"}
             /\ terr = <<"Did not get expected error NFS4ERR_EXIST from open">>
    /\ (tpc = "exit" /\ texit = 0) =>
          count = Cardinality({i \in OpsOf("nfs_open_creat_excl") : ops[i].ret = -EEXIST})

\* the operations of the loop are issued in the order create, close,
\* exclusive create, unlink
CycleOrder ==
    \A i \in DOMAIN ops :
        /\ ops[i].op = "nfs_open_creat" =>
              (i > 1 /\ ops[i - 1].op \in {"nfs_unlink_first", "nfs_unlink"})
        /\ ops[i].op = "nfs_close" => ops[i - 1].op = "nfs_open_creat"
        /\ ops[i].op = "nfs_open_creat_excl" => ops[i - 1].op = "nfs_close"
        /\ ops[i].op = "nfs_unlink" => ops[i - 1].op = "nfs_open_creat_excl"

\* C13: with no other client touching the path, every cycle issues create,
\* close, exclusive create, unlink in this order; the file is absent at the
\* start of every cycle, the first included, whether or not it existed before
\* the program started; it exists when the exclusive open is issued; it is
\* absent when the cycle is counted.
C13_FileStateInCycle ==
    interference = 0 =>
        /\ CycleOrder
        /\ tpc = "create" => ~exists
        /\ \A i \in OpsOf("nfs_open_creat") : ~ops[i].existed
        /\ \A i \in OpsOf("nfs_open_creat_excl") : ops[i].existed
        /\ tpc = "count" => ~exists

\* the object was created: the call that makes it returned non-NULL
Created(o) == \E i \in OpsOf(o) : ops[i].ret = 0
ErrorPath == argc # 3 \/ ~NoCallFailed

\* C18: on every exit path the parsed URL and the NFS context are each
\* destroyed exactly once if and only if they were created, the URL before
\* the context; the exit status is 1 on every error path and 0 only after
\* the loop was left on SIGINT.
C18_CleanupOnEveryExit ==
    /\ tpc # "exit" => (destroyed = <<>> /\ texit = -1)
    /\ tpc = "exit" =>
          /\ destroyed =
                (IF Created("nfs_parse_url_dir") THEN <<"nfs_destroy_url">> ELSE <<>>)
                \o (IF Created("nfs_init_context") THEN <<"nfs_destroy_context">> ELSE <<>>)
          /\ texit = (IF ErrorPath THEN 1 ELSE 0)
          /\ texit = 0 => /\ shutdown = 1
                          /\ tout = <<RunningLine, CountLine(count)>>
          /\ texit = 1 => \A i \in DOMAIN tout : tout[i].text # CountLine(0).text

\* a failure inside the loop, after one cycle, with both objects destroyed
C18_Witness ==
    /\ tpc = "exit"
    /\ texit = 1
    /\ count >= 1
    /\ destroyed = <<"nfs_destroy_url", "nfs_destroy_context">>

====
